---- MODULE Spec2Model ----
(***************************************************************************)
(* Cube Land (src/nah.py): room assignment, the store, and the Socket.IO   *)
(* presence handlers, as a state machine.  Python dicts are functions      *)
(* whose DOMAIN is the set of keys, Python lists are sequences, uuid4()    *)
(* is a counter of fresh identifiers, and Python's None is the value None  *)
(* (NoLimit for an item's limit, where 0 is a value of its own).           *)
(***************************************************************************)
EXTENDS Integers, Sequences, FiniteSets, TLC

VARIABLES USERS, session, ROOMS, ROOM_PURCHASE_COUNTS, GLOBAL_STORE,
          LOGGED_IN, conn, nextRoomId, nextItemId, last, emitted, thr,
          now, invites, responses

vars == <<USERS, session, ROOMS, ROOM_PURCHASE_COUNTS, GLOBAL_STORE,
          LOGGED_IN, conn, nextRoomId, nextItemId, last, emitted, thr,
          now, invites, responses>>

(* now is the server's clock, time.time(), in whole seconds.  invites and
   responses are the record of what has happened, kept for the properties: the
   party notifications sent so far, each with its host, room and time, and the
   party responses handled so far.  No handler reads them. *)

----------------------------------------------------------------------------
(* Program constants *)

MAX_ROOM_SIZE == 10

START_COINS == 100

(* data.get("msg", "")[:300] *)
CHAT_LIMIT == 300

(* the browser takes a party notification down after 10000 ms *)
INVITE_TTL == 10

None == 0

NoLimit == -1

(* Bounds of the model *)

MaxUsers == 2

MaxRooms == 2

MaxItems == 2

Names == 1..MaxUsers

Sessions == {1, 2}

Sids == {1, 2}

Threads == {1, 2}

(* the players of the store specifications; player 1 signs up with the
   worker password *)
Shoppers == {1, 2}

Prices == {60}

(* what the worker types into the form's limit field *)
LimitTexts == {"", "0", "1", "-1"}

Amounts == {-10, 0, 60}

(* where the browsers say their player has moved to: inside the map, beyond its
   right edge, above its top edge *)
Moves == {<<400, 300>>, <<900, 300>>, <<400, -10>>}

(* the chat texts sent: a text of n characters, for lengths on both sides of the
   cut *)
Text(n) == [k \in 1..n |-> k % 10]

ChatTexts == {Text(0), Text(3), Text(CHAT_LIMIT), Text(CHAT_LIMIT + 1), Text(CHAT_LIMIT + 5)}

Actions == {"enter_home", "exit_home", "wave"}

(* the hosts named in party responses: the two players, and a name nobody has *)
Hosts == {1, 2, 3}

Responses == {"accept", "decline", "maybe"}

(* what a tap does *)
TapActions == {"donate", "attack", "wave"}

(* the amounts sent with a tap, in halves of a coin: -10, 0.5, 60 and 60.5 *)
TapAmounts == {-20, 1, 120, 121}

(* the clock: it advances up to MaxClock in steps that take it past the life
   of a notification *)
MaxClock == 11

Ticks == {INVITE_TTL + 1}

(* How many users had already signed up, from browsers that then stay idle,
   when the behaviours start: none, or one fewer than a full room. *)
InitFill == {0, MAX_ROOM_SIZE - 1}

----------------------------------------------------------------------------
(* Helpers for dicts and lists *)

EmptyDict == [k \in {} |-> None]

Put(d, k, v) == [x \in DOMAIN d \cup {k} |-> IF x = k THEN v ELSE d[x]]

Pop(d, k) == [x \in DOMAIN d \ {k} |-> d[x]]

Get(d, k, dflt) == IF k \in DOMAIN d THEN d[k] ELSE dflt

SetDefault(d, k, v) == IF k \in DOMAIN d THEN d ELSE Put(d, k, v)

Contains(seq, x) == \E i \in 1..Len(seq) : seq[i] = x

IndexOf(seq, x) == IF Contains(seq, x)
                   THEN CHOOSE i \in 1..Len(seq) :
                          seq[i] = x /\ \A j \in 1..(i - 1) : seq[j] # x
                   ELSE 0

RemoveAt(seq, i) == [j \in 1..(Len(seq) - 1) |-> IF j < i THEN seq[j] ELSE seq[j + 1]]

(* list.remove(x): drops the first occurrence *)
ListRemove(seq, x) == IF Contains(seq, x) THEN RemoveAt(seq, IndexOf(seq, x)) ELSE seq

----------------------------------------------------------------------------
(* Rooms *)

NewUser(is_worker, n) ==
    [is_worker |-> is_worker, coins |-> START_COINS,
     home_pos |-> [x |-> 100 + n * 20, y |-> 100],
     inventory |-> <<>>, skin |-> "Pinky Sprite.png"]

NewRoom(room_id, username) ==
    [id |-> room_id, users |-> <<username>>, players |-> EmptyDict]

(* FirstOpenRoom with the comparison off by one: <= for < *)
FirstOpenRoom_le(rooms) ==
    IF \E i \in 1..Len(rooms) : Len(rooms[i].users) <= MAX_ROOM_SIZE
    THEN CHOOSE i \in 1..Len(rooms) :
           /\ Len(rooms[i].users) <= MAX_ROOM_SIZE
           /\ \A j \in 1..(i - 1) : Len(rooms[j].users) > MAX_ROOM_SIZE
    ELSE 0

(* for room in ROOMS: if len(room["users"]) < MAX_ROOM_SIZE -- the index of the
   first such room, 0 when the loop falls through *)
FirstOpenRoom(rooms) ==
    IF \E i \in 1..Len(rooms) : Len(rooms[i].users) < MAX_ROOM_SIZE
    THEN CHOOSE i \in 1..Len(rooms) :
           /\ Len(rooms[i].users) < MAX_ROOM_SIZE
           /\ \A j \in 1..(i - 1) : Len(rooms[j].users) >= MAX_ROOM_SIZE
    ELSE 0

(* assign_room_for_user scanning from the newest room: the last open room *)
assign_room_for_user_newest(rooms, username, room_id) ==
    LET open == {i \in 1..Len(rooms) : Len(rooms[i].users) < MAX_ROOM_SIZE}
    IN  IF open # {}
        THEN [rooms EXCEPT ![CHOOSE i \in open : \A j \in open : j <= i].users =
                               Append(@, username)]
        ELSE Append(rooms, NewRoom(room_id, username))

(* assign_room_for_user: ROOMS afterwards; room_id is the uuid a new room gets *)
assign_room_for_user(rooms, username, room_id) ==
    LET i == FirstOpenRoom(rooms)
    IN  IF i # 0
        THEN [rooms EXCEPT ![i].users = Append(@, username)]
        ELSE Append(rooms, NewRoom(room_id, username))

(* the id of the room assign_room_for_user returns *)
assigned_room_id(rooms, room_id) ==
    LET i == FirstOpenRoom(rooms)
    IN  IF i # 0 THEN rooms[i].id ELSE room_id

(* get_room_for_user: index in ROOMS of the first room listing username, or 0 *)
RoomIndexOf(rooms, username) ==
    IF \E i \in 1..Len(rooms) : Contains(rooms[i].users, username)
    THEN CHOOSE i \in 1..Len(rooms) :
           /\ Contains(rooms[i].users, username)
           /\ \A j \in 1..(i - 1) : ~Contains(rooms[j].users, username)
    ELSE 0

get_room_for_user(rooms, username) ==
    LET i == RoomIndexOf(rooms, username)
    IN  IF i # 0 THEN rooms[i].id ELSE None

(* remove_user_from_room without `if len(room["users"]) == 0: ROOMS.remove(room)` *)
remove_user_from_room_keep(rooms, username) ==
    LET i == RoomIndexOf(rooms, username)
    IN  IF i = 0 THEN rooms
        ELSE [rooms EXCEPT ![i].users = ListRemove(@, username),
                           ![i].players = Pop(@, username)]

(* remove_user_from_room: ROOMS afterwards *)
remove_user_from_room(rooms, username) ==
    LET i == RoomIndexOf(rooms, username)
    IN  IF i = 0 THEN rooms
        ELSE LET left == [rooms[i] EXCEPT !.users = ListRemove(@, username),
                                          !.players = Pop(@, username)]
             IN  IF Len(left.users) = 0
                 THEN RemoveAt(rooms, i)
                 ELSE [rooms EXCEPT ![i] = left]

(* remove_user_from_room: ROOM_PURCHASE_COUNTS afterwards *)
remove_user_counts(rooms, counts, username) ==
    LET i == RoomIndexOf(rooms, username)
    IN  IF i # 0 /\ Len(ListRemove(rooms[i].users, username)) = 0
        THEN Pop(counts, rooms[i].id)
        ELSE counts

RoomIds(rooms) == {rooms[i].id : i \in 1..Len(rooms)}

----------------------------------------------------------------------------
(* Initial states *)

(* which handler ran last, on what, and the branch it took *)
Result(op, arg, res) == [op |-> op, arg |-> arg, res |-> res]

(* a request thread: where it is in its handler, and the handler's locals *)
Idle == [pc |-> "idle", op |-> "none", s |-> None, username |-> None,
         i |-> 0, room |-> None, item |-> None, target |-> None, amount |-> 0,
         res |-> "none"]

Fillers(k) == (MaxUsers + 1)..(MaxUsers + k)

(* The state after k sign-ups of the users Fillers(k), in order, and nothing else *)
InitAfter(k) ==
    /\ USERS = [u \in Fillers(k) |-> NewUser(FALSE, u - MaxUsers - 1)]
    /\ session = [s \in Sessions |-> [username |-> None, room_id |-> None]]
    /\ ROOMS = IF k = 0 THEN <<>>
               ELSE <<[id |-> 1, users |-> [i \in 1..k |-> MaxUsers + i],
                       players |-> EmptyDict]>>
    /\ ROOM_PURCHASE_COUNTS = IF k = 0 THEN EmptyDict ELSE [r \in {1} |-> EmptyDict]
    /\ GLOBAL_STORE = <<>>
    /\ LOGGED_IN = EmptyDict
    /\ conn = {}
    /\ nextRoomId = IF k = 0 THEN 1 ELSE 2
    /\ nextItemId = 1
    /\ last = IF k = 0 THEN Result("init", None, "ok")
              ELSE Result("signup", MaxUsers + k, "ok")
    /\ emitted = <<>>
    /\ thr = [t \in Threads |-> Idle]
    /\ now = 0
    /\ invites = EmptyDict
    /\ responses = {}

Init == \E k \in InitFill : InitAfter(k)

(* the server right after it started *)
InitFresh == InitAfter(0)

----------------------------------------------------------------------------
(* HTTP routes, one request at a time.  The usernames and passwords of the
   requests are non-empty; password_ok is check_password_hash's answer. *)

(* uuid4() for a room: bounded so that the model is finite *)
CanAssign(rooms) == FirstOpenRoom(rooms) # 0 \/ nextRoomId <= MaxRooms

(* the effect of `room = assign_room_for_user(username); session["room_id"] = room["id"]` *)
AssignFor(s, username) ==
    LET rid == assigned_room_id(ROOMS, nextRoomId)
    IN  /\ ROOMS' = assign_room_for_user(ROOMS, username, nextRoomId)
        /\ ROOM_PURCHASE_COUNTS' = SetDefault(ROOM_PURCHASE_COUNTS, rid, EmptyDict)
        /\ nextRoomId' = IF FirstOpenRoom(ROOMS) = 0 THEN nextRoomId + 1 ELSE nextRoomId
        /\ session' = [session EXCEPT ![s] = [username |-> username, room_id |-> rid]]

signup(s, username, is_worker) ==
    /\ emitted' = <<>>
    /\ UNCHANGED <<GLOBAL_STORE, LOGGED_IN, conn, nextItemId, thr,
                   now, invites, responses>>
    /\ IF username \in DOMAIN USERS
       THEN /\ last' = Result("signup", username, "exists")
            /\ UNCHANGED <<USERS, session, ROOMS, ROOM_PURCHASE_COUNTS, nextRoomId>>
       ELSE /\ CanAssign(ROOMS)
            /\ USERS' = Put(USERS, username, NewUser(is_worker, Cardinality(DOMAIN USERS)))
            /\ AssignFor(s, username)
            /\ last' = Result("signup", username, "ok")

(* login without `if not room:`: it assigns every time *)
login_always_assigns(rooms, username) == TRUE

(* login: `room = get_room_for_user(username); if not room:` *)
login_needs_assign(rooms, username) == get_room_for_user(rooms, username) = None

login(s, username, password_ok) ==
    /\ emitted' = <<>>
    /\ UNCHANGED <<USERS, GLOBAL_STORE, LOGGED_IN, conn, nextItemId, thr,
                   now, invites, responses>>
    /\ IF username \notin DOMAIN USERS \/ ~password_ok
       THEN /\ last' = Result("login", username, "incorrect")
            /\ UNCHANGED <<session, ROOMS, ROOM_PURCHASE_COUNTS, nextRoomId>>
       ELSE IF login_needs_assign(ROOMS, username)
               THEN /\ CanAssign(ROOMS)
                    /\ AssignFor(s, username)
                    /\ last' = Result("login", username, "ok")
               ELSE /\ last' = Result("login", username, "rejoined")
                    /\ session' = [session EXCEPT ![s] =
                           [username |-> username,
                            room_id |-> get_room_for_user(ROOMS, username)]]
                    /\ UNCHANGED <<ROOMS, ROOM_PURCHASE_COUNTS, nextRoomId>>

logout(s) ==
    /\ emitted' = <<>>
    /\ UNCHANGED <<USERS, GLOBAL_STORE, LOGGED_IN, conn, nextRoomId, nextItemId, thr,
                   now, invites, responses>>
    /\ IF session[s].username = None
       THEN /\ last' = Result("logout", None, "redirect")
            /\ UNCHANGED <<session, ROOMS, ROOM_PURCHASE_COUNTS>>
       ELSE /\ session' = [session EXCEPT ![s] = [username |-> None, room_id |-> None]]
            /\ ROOMS' = remove_user_from_room(ROOMS, session[s].username)
            /\ ROOM_PURCHASE_COUNTS' =
                   remove_user_counts(ROOMS, ROOM_PURCHASE_COUNTS, session[s].username)
            /\ last' = Result("logout", session[s].username,
                              IF RoomIndexOf(ROOMS, session[s].username) = 0 THEN "no_room"
                              ELSE IF Len(ROOMS') < Len(ROOMS) THEN "emptied" ELSE "ok")

----------------------------------------------------------------------------
(* Socket.IO handlers *)

Event(name, room, sid, data) == [name |-> name, room |-> room, sid |-> sid, data |-> data]

(* on_connect placing the player at the map's origin *)
PlayerAtOrigin(username) ==
    [x |-> 0, y |-> 0, skin |-> USERS[username].skin, in_house |-> FALSE]

(* the player state on_connect writes *)
PlayerAtHome(username) ==
    [x |-> USERS[username].home_pos.x, y |-> USERS[username].home_pos.y,
     skin |-> USERS[username].skin, in_house |-> FALSE]

(* a browser whose cookie is session s opens a socket, which gets the id sid *)
on_connect(sid, s) ==
    LET username == session[s].username
        i == RoomIndexOf(ROOMS, username)
    IN  /\ sid \notin conn
        /\ conn' = conn \cup {sid}
        /\ UNCHANGED <<USERS, session, ROOM_PURCHASE_COUNTS, GLOBAL_STORE,
                       nextRoomId, nextItemId, thr,
                       now, invites, responses>>
        /\ IF username = None
           THEN /\ last' = Result("connect", None, "anonymous")
                /\ emitted' = <<>>
                /\ UNCHANGED <<LOGGED_IN, ROOMS>>
           ELSE /\ LOGGED_IN' = Put(LOGGED_IN, sid, username)
                /\ IF i = 0
                   THEN /\ last' = Result("connect", username, "no_room")
                        /\ emitted' = <<>>
                        /\ UNCHANGED ROOMS
                   ELSE /\ last' = Result("connect", username, "ok")
                        /\ ROOMS' = [ROOMS EXCEPT ![i].players =
                                        Put(@, username, PlayerAtHome(username))]
                        /\ emitted' =
                             <<Event("player_join", ROOMS[i].id, None, username),
                               Event("room_state", None, sid,
                                     [players |-> ROOMS'[i].players,
                                      coins |-> USERS[username].coins])>>

(* on_disconnect without `room["world_state"]["players"].pop(username, None)` *)
disconnect_rooms_nopop(rooms, username) == rooms

(* what on_disconnect does to ROOMS for the user of the closed socket *)
disconnect_rooms(rooms, username) ==
    LET i == RoomIndexOf(rooms, username)
    IN  IF i = 0 THEN rooms
        ELSE [rooms EXCEPT ![i].players = Pop(@, username)]

on_disconnect(sid) ==
    LET username == Get(LOGGED_IN, sid, None)
        i == RoomIndexOf(ROOMS, username)
    IN  /\ sid \in conn
        /\ conn' = conn \ {sid}
        /\ LOGGED_IN' = Pop(LOGGED_IN, sid)
        /\ UNCHANGED <<USERS, session, ROOM_PURCHASE_COUNTS, GLOBAL_STORE,
                       nextRoomId, nextItemId, thr,
                       now, invites, responses>>
        /\ IF username = None
           THEN /\ last' = Result("disconnect", None, "anonymous")
                /\ emitted' = <<>>
                /\ UNCHANGED ROOMS
           ELSE /\ ROOMS' = disconnect_rooms(ROOMS, username)
                /\ last' = Result("disconnect", username,
                                  IF i = 0 THEN "no_room" ELSE "ok")
                /\ emitted' = IF i = 0 THEN <<>>
                              ELSE <<Event("player_leave", ROOMS[i].id, None, username)>>

----------------------------------------------------------------------------
(* Socket.IO handlers of the game.  A player's state entry is a dict: its keys
   are those that have been written (x, y, skin, in_house; last_active, a
   timestamp nothing reads, is left out). *)

(* the module's state the game handlers leave alone *)
GameUnchanged ==
    UNCHANGED <<USERS, session, ROOM_PURCHASE_COUNTS, GLOBAL_STORE, LOGGED_IN, conn,
                nextRoomId, nextItemId, thr, now>>

(* on_move storing the coordinates cut to the map, 0..800 by 0..560 *)
moved_player_clamped(player, x, y) ==
    LET cx == IF x < 0 THEN 0 ELSE IF x > 800 THEN 800 ELSE x
        cy == IF y < 0 THEN 0 ELSE IF y > 560 THEN 560 ELSE y
    IN  Put(Put(player, "x", cx), "y", cy)

(* x = float(data.get("x", 0)); y = ...; player.update({"x": x, "y": y, ...}):
   float() of a number is that number, whatever its size *)
moved_player(player, x, y) == Put(Put(player, "x", x), "y", y)

on_move(sid, x, y) ==
    LET username == Get(LOGGED_IN, sid, None)
        i == RoomIndexOf(ROOMS, username)
    IN  /\ sid \in conn
        /\ GameUnchanged
        /\ UNCHANGED <<invites, responses>>
        /\ IF username = None
           THEN /\ last' = Result("move", None, "anonymous")
                /\ emitted' = <<>>
                /\ UNCHANGED ROOMS
           ELSE IF i = 0
           THEN /\ last' = Result("move", username, "no_room")
                /\ emitted' = <<>>
                /\ UNCHANGED ROOMS
           ELSE /\ last' = Result("move", username, "ok")
                /\ ROOMS' = [ROOMS EXCEPT ![i].players =
                                Put(@, username,
                                    moved_player(Get(@, username, EmptyDict), x, y))]
                /\ emitted' = <<Event("player_moved", ROOMS[i].id, None,
                                      [username |-> username, x |-> x, y |-> y,
                                       skip_sid |-> sid])>>

(* msg[:n] *)
Prefix(msg, n) == SubSeq(msg, 1, IF Len(msg) < n THEN Len(msg) ELSE n)

(* on_chat cutting one character late *)
chat_text_late(msg) == Prefix(msg, CHAT_LIMIT + 1)

(* data.get("msg", "")[:300] *)
chat_text(msg) == Prefix(msg, CHAT_LIMIT)

on_chat(sid, msg) ==
    LET username == Get(LOGGED_IN, sid, None)
        i == RoomIndexOf(ROOMS, username)
    IN  /\ sid \in conn
        /\ GameUnchanged
        /\ UNCHANGED <<ROOMS, invites, responses>>
        /\ IF username = None
           THEN /\ last' = Result("chat", [sid |-> sid, msg |-> msg], "anonymous")
                /\ emitted' = <<>>
           ELSE IF i = 0
           THEN /\ last' = Result("chat", [sid |-> sid, msg |-> msg], "no_room")
                /\ emitted' = <<>>
           ELSE /\ last' = Result("chat", [sid |-> sid, msg |-> msg], "ok")
                /\ emitted' = <<Event("chat_bubble", ROOMS[i].id, None,
                                      [from |-> username, msg |-> chat_text(msg)])>>

(* `player = room["world_state"]["players"].get(username); if player:` -- a
   missing entry and an empty one are both false *)
HasPlayer(players, username) ==
    username \in DOMAIN players /\ DOMAIN players[username] # {}

on_press_e(sid, action) ==
    LET username == Get(LOGGED_IN, sid, None)
        i == RoomIndexOf(ROOMS, username)
        known == action \in {"enter_home", "exit_home"}
    IN  /\ sid \in conn
        /\ GameUnchanged
        /\ UNCHANGED <<invites, responses>>
        /\ IF username = None
           THEN /\ last' = Result("press_e", None, "anonymous")
                /\ emitted' = <<>>
                /\ UNCHANGED ROOMS
           ELSE IF i = 0
           THEN /\ last' = Result("press_e", username, "no_room")
                /\ emitted' = <<>>
                /\ UNCHANGED ROOMS
           ELSE IF ~known \/ ~HasPlayer(ROOMS[i].players, username)
           THEN /\ last' = Result("press_e", username, "ignored")
                /\ emitted' = <<>>
                /\ UNCHANGED ROOMS
           ELSE /\ last' = Result("press_e", username, action)
                /\ ROOMS' = [ROOMS EXCEPT ![i].players[username] =
                                Put(@, "in_house", action = "enter_home")]
                /\ emitted' = <<Event(IF action = "enter_home" THEN "entered_house"
                                      ELSE "exited_house",
                                      ROOMS[i].id, None, username)>>

(* party_notification sent to the host's room.  Recorded: the host's latest
   notification, and that nobody has answered it yet. *)
on_party_invite(sid) ==
    LET host == Get(LOGGED_IN, sid, None)
        i == RoomIndexOf(ROOMS, host)
    IN  /\ sid \in conn
        /\ GameUnchanged
        /\ UNCHANGED ROOMS
        /\ IF host = None
           THEN /\ last' = Result("party_invite", None, "anonymous")
                /\ emitted' = <<>>
                /\ UNCHANGED <<invites, responses>>
           ELSE IF i = 0
           THEN /\ last' = Result("party_invite", host, "no_room")
                /\ emitted' = <<>>
                /\ UNCHANGED <<invites, responses>>
           ELSE /\ last' = Result("party_invite", host, "ok")
                /\ emitted' = <<Event("party_notification", ROOMS[i].id, None, host)>>
                /\ invites' = Put(invites, host, [room |-> ROOMS[i].id, at |-> now])
                /\ responses' = {r \in responses : r[2] # host}

(* on_party_response writing a new entry over the player's state *)
party_guest_reset(players, username) == Put(players, username, [in_house |-> TRUE])

(* room["world_state"]["players"].setdefault(username, {})["in_house"] = True *)
party_guest(players, username) ==
    Put(players, username, Put(Get(players, username, EmptyDict), "in_house", TRUE))

(* on_party_response looking up the responder's room *)
party_room_own(rooms, username, host) == RoomIndexOf(rooms, username)

(* room = get_room_for_user(host): its index in ROOMS, 0 for None *)
party_room(rooms, username, host) == RoomIndexOf(rooms, host)

(* on_party_response taking every response but a decline as an accept *)
is_accept_unless_decline(response) == response # "decline"

(* `if response == "accept":` *)
is_accept(response) == response = "accept"

(* on_party_response; host and response are what the browser sent.  Recorded:
   that this player has answered the host's latest notification. *)
on_party_response(sid, host, response) ==
    LET username == Get(LOGGED_IN, sid, None)
        i == party_room(ROOMS, username, host)
        req == [sid |-> sid, username |-> username, host |-> host,
                response |-> response]
    IN  /\ sid \in conn
        /\ GameUnchanged
        /\ UNCHANGED invites
        /\ IF username = None
           THEN /\ last' = Result("party_response", req, "anonymous")
                /\ emitted' = <<>>
                /\ UNCHANGED <<ROOMS, responses>>
           ELSE /\ responses' = IF host \in DOMAIN invites
                                 THEN responses \cup {<<username, host>>}
                                 ELSE responses
                /\ IF i = 0
                   THEN /\ last' = Result("party_response", req, "failed")
                        /\ emitted' = <<Event("party_failed", None, sid,
                                              "Host not in same server or gone.")>>
                        /\ UNCHANGED ROOMS
                   ELSE IF is_accept(response)
                   THEN /\ last' = Result("party_response", req, "accept")
                        /\ ROOMS' = [ROOMS EXCEPT ![i].players = party_guest(@, username)]
                        /\ emitted' = <<Event("joined_party", ROOMS[i].id, None,
                                              [host |-> host, guest |-> username])>>
                   ELSE /\ last' = Result("party_response", req, "decline")
                        /\ UNCHANGED ROOMS
                        /\ emitted' = <<Event("party_declined", ROOMS[i].id, None,
                                              [host |-> host, guest |-> username])>>

(* time passes *)
Tick(d) ==
    /\ now + d <= MaxClock
    /\ now' = now + d
    /\ last' = Result("tick", d, "ok")
    /\ emitted' = <<>>
    /\ UNCHANGED <<USERS, session, ROOMS, ROOM_PURCHASE_COUNTS, GLOBAL_STORE, LOGGED_IN,
                   conn, nextRoomId, nextItemId, thr, invites, responses>>

----------------------------------------------------------------------------
(* Room assignment: sign-ups, log-ins and log-outs from two browsers, handled
   one request at a time *)

Next ==
    \/ \E s \in Sessions, u \in Names : signup(s, u, FALSE)
    \/ \E s \in Sessions, u \in Names, ok \in BOOLEAN : login(s, u, ok)
    \/ \E s \in Sessions : logout(s)

Spec == Init /\ [][Next]_vars

(* Presence: one browser, its sockets, and the room registry *)

NextPresence ==
    \/ \E u \in Names : signup(1, u, FALSE)
    \/ \E u \in Names, ok \in BOOLEAN : login(1, u, ok)
    \/ logout(1)
    \/ \E sid \in Sids : on_connect(sid, 1)
    \/ \E sid \in Sids : on_disconnect(sid)

SpecPresence == InitFresh /\ [][NextPresence]_vars

----------------------------------------------------------------------------
(* The store *)

(* limit.isdigit() and int(limit), for the texts of LimitTexts *)
IsDigit(text) == text \in {"0", "1", "2"}

IntOf(text) == CASE text = "0" -> 0 [] text = "1" -> 1 [] text = "2" -> 2
                 [] text = "-1" -> -1

(* limit = int(limit) if limit and limit.isdigit() else None *)
ParseLimit(text) == IF text # "" /\ IsDigit(text) THEN IntOf(text) ELSE NoLimit

NewItem(item_id, price, limit) ==
    [id |-> item_id, type |-> "item", title |-> "Untitled", price |-> price,
     limit |-> limit, total_sold |-> 0]

(* the new entry put at the end of the list *)
InsertLast(items, item) == items \o <<item>>

(* GLOBAL_STORE["items"].insert(0, new_item) *)
InsertFirst(items, item) == <<item>> \o items

(* worker_page letting every known user in *)
not_authorized_unknown(users, username) == username \notin DOMAIN users

(* user = USERS.get(username); `if not user or not user.get("is_worker"):` *)
not_authorized(users, username) ==
    username \notin DOMAIN users \/ ~users[username].is_worker

(* worker_page, POST *)
worker_page(s, price, limit_text) ==
    LET username == session[s].username
    IN  /\ emitted' = <<>>
        /\ UNCHANGED <<USERS, session, ROOMS, ROOM_PURCHASE_COUNTS, LOGGED_IN, conn,
                       nextRoomId, thr,
                       now, invites, responses>>
        /\ IF username = None
           THEN /\ last' = Result("worker", None, "redirect")
                /\ UNCHANGED <<GLOBAL_STORE, nextItemId>>
           ELSE IF not_authorized(USERS, username)
           THEN /\ last' = Result("worker", username, "unauthorized")
                /\ UNCHANGED <<GLOBAL_STORE, nextItemId>>
           ELSE /\ Len(GLOBAL_STORE) < MaxItems
                /\ GLOBAL_STORE' =
                     InsertFirst(GLOBAL_STORE,
                                 NewItem(nextItemId, price, ParseLimit(limit_text)))
                /\ nextItemId' = nextItemId + 1
                /\ last' = Result("worker", username, "ok")

(* next((it for it in GLOBAL_STORE["items"] if it["id"] == item_id), None):
   the index of the item, 0 for None *)
FindItem(items, item_id) ==
    IF \E k \in 1..Len(items) : items[k].id = item_id
    THEN CHOOSE k \in 1..Len(items) :
           items[k].id = item_id /\ \A j \in 1..(k - 1) : items[j].id # item_id
    ELSE 0

(* `if item["limit"]:` -- None and 0 are both false *)
LimitApplies(limit) == limit # NoLimit /\ limit # 0

(* ROOM_PURCHASE_COUNTS.setdefault(room_id, {}).get(item_id, 0) *)
RoomCount(counts, room_id, item_id) == Get(Get(counts, room_id, EmptyDict), item_id, 0)

(* the limit check off by one: > for >= *)
SoldOut_gt(count, limit) == count > limit

(* `if count >= item["limit"]` *)
SoldOut(count, limit) == count >= limit

(* `if user["coins"] < item["price"]` *)
CannotPay(coins, price) == coins < price

(* the count set to 1 instead of raised by 1 *)
CountUp_once(counts, room_id, item_id) ==
    Put(counts, room_id, Put(Get(counts, room_id, EmptyDict), item_id, 1))

(* ROOM_PURCHASE_COUNTS.setdefault(room_id, {})[item_id] = ... + 1 *)
CountUp(counts, room_id, item_id) ==
    Put(counts, room_id,
        Put(Get(counts, room_id, EmptyDict), item_id,
            RoomCount(counts, room_id, item_id) + 1))

(* a purchase that leaves total_sold alone *)
ItemSold_skip(items, k) == items

(* item["total_sold"] += 1, for the entry at index k of the list *)
ItemSold(items, k) == [items EXCEPT ![k].total_sold = @ + 1]

(* jsonify(...): the JSON body of the response *)
Reply(data) == [name |-> "reply", room |-> None, sid |-> None, data |-> data]

buy(s, item_id) ==
    LET username == session[s].username
        room_id == session[s].room_id
        k == FindItem(GLOBAL_STORE, item_id)
        item == GLOBAL_STORE[k]
        user == USERS[username]
        checked == IF LimitApplies(item.limit)
                   THEN SetDefault(ROOM_PURCHASE_COUNTS, room_id, EmptyDict)
                   ELSE ROOM_PURCHASE_COUNTS
    IN  /\ UNCHANGED <<session, ROOMS, LOGGED_IN, conn, nextRoomId, nextItemId, thr,
                       now, invites, responses>>
        /\ IF username = None
           THEN /\ last' = Result("buy", item_id, "redirect")
                /\ emitted' = <<>>
                /\ UNCHANGED <<USERS, GLOBAL_STORE, ROOM_PURCHASE_COUNTS>>
           ELSE IF k = 0
           THEN /\ last' = Result("buy", item_id, "not_found")
                /\ emitted' = <<Reply([success |-> FALSE, msg |-> "Item not found"])>>
                /\ UNCHANGED <<USERS, GLOBAL_STORE, ROOM_PURCHASE_COUNTS>>
           ELSE IF LimitApplies(item.limit)
                   /\ SoldOut(RoomCount(checked, room_id, item_id), item.limit)
           THEN /\ last' = Result("buy", item_id, "sold_out")
                /\ emitted' = <<Reply([success |-> FALSE,
                                       msg |-> "Item sold out in this server"])>>
                /\ ROOM_PURCHASE_COUNTS' = checked
                /\ UNCHANGED <<USERS, GLOBAL_STORE>>
           ELSE IF CannotPay(user.coins, item.price)
           THEN /\ last' = Result("buy", item_id, "no_coins")
                /\ emitted' = <<Reply([success |-> FALSE, msg |-> "Not enough coins"])>>
                /\ ROOM_PURCHASE_COUNTS' = checked
                /\ UNCHANGED <<USERS, GLOBAL_STORE>>
           ELSE /\ USERS' = [USERS EXCEPT ![username].coins = @ - item.price,
                                          ![username].inventory = Append(@, item_id)]
                /\ GLOBAL_STORE' = ItemSold(GLOBAL_STORE, k)
                /\ ROOM_PURCHASE_COUNTS' = CountUp(checked, room_id, item_id)
                /\ emitted' = <<Reply([success |-> TRUE, coins |-> USERS'[username].coins])>>
                /\ last' = Result("buy", item_id, "ok")

(* The store with one browser: sign-ups, log-ins and log-outs, a worker adding
   entries, purchases; one request at a time *)

ItemIds == 1..(MaxItems + 1)

NextStore ==
    \/ \E u \in Shoppers : signup(1, u, u = 1)
    \/ \E u \in Shoppers, ok \in BOOLEAN : login(1, u, ok)
    \/ logout(1)
    \/ \E price \in Prices, text \in LimitTexts : worker_page(1, price, text)
    \/ \E item_id \in ItemIds : buy(1, item_id)

SpecStore == InitFresh /\ [][NextStore]_vars

----------------------------------------------------------------------------
(* buy and the donate branch of on_tap_player served by threads that interleave
   between their statements.  Each thread serves one request. *)

(* The state after player 1 has signed up as a worker from browser 1 and player
   2 from browser 2, the worker has added one entry, and both browsers have
   opened their socket *)
InitShop(price, limit_text) ==
    /\ USERS = [u \in Shoppers |-> NewUser(u = 1, u - 1)]
    /\ session = [s \in Sessions |-> [username |-> s, room_id |-> 1]]
    /\ ROOMS = <<[id |-> 1, users |-> <<1, 2>>,
                  players |-> [u \in Shoppers |->
                                 [x |-> 100 + (u - 1) * 20, y |-> 100,
                                  skin |-> "Pinky Sprite.png", in_house |-> FALSE]]]>>
    /\ ROOM_PURCHASE_COUNTS = [r \in {1} |-> EmptyDict]
    /\ GLOBAL_STORE = <<NewItem(1, price, ParseLimit(limit_text))>>
    /\ LOGGED_IN = [sid \in Sids |-> sid]
    /\ conn = Sids
    /\ nextRoomId = 2
    /\ nextItemId = 2
    /\ last = Result("connect", 2, "ok")
    /\ emitted = <<Event("player_join", 1, None, 2),
                   Event("room_state", None, 2,
                         [players |-> ROOMS[1].players, coins |-> START_COINS])>>
    /\ thr = [t \in Threads |-> Idle]
    /\ now = 0
    /\ invites = EmptyDict
    /\ responses = {}

InitBuy == \E price \in Prices, text \in LimitTexts : InitShop(price, text)

Done(t, res) == [thr EXCEPT ![t].pc = "done", ![t].res = res]

(* username = session["username"]; user = USERS[username]; item = next(...);
   room_id = session.get("room_id") *)
buy_begin(t, s, item_id) ==
    /\ thr[t].pc = "idle"
    /\ session[s].username # None
    /\ thr' = [thr EXCEPT ![t] =
                 [Idle EXCEPT !.pc = IF FindItem(GLOBAL_STORE, item_id) = 0
                                     THEN "done" ELSE "limit",
                              !.op = "buy", !.s = s, !.username = session[s].username,
                              !.room = session[s].room_id, !.item = item_id,
                              !.res = IF FindItem(GLOBAL_STORE, item_id) = 0
                                      THEN "not_found" ELSE "none"]]
    /\ last' = Result("buy", item_id, "begin")
    /\ emitted' = <<>>
    /\ UNCHANGED <<USERS, session, ROOMS, ROOM_PURCHASE_COUNTS, GLOBAL_STORE, LOGGED_IN,
                   conn, nextRoomId, nextItemId,
                   now, invites, responses>>

(* if item["limit"]: count = ...; if count >= item["limit"]: return sold out *)
buy_limit(t) ==
    LET item == GLOBAL_STORE[FindItem(GLOBAL_STORE, thr[t].item)]
        checked == IF LimitApplies(item.limit)
                   THEN SetDefault(ROOM_PURCHASE_COUNTS, thr[t].room, EmptyDict)
                   ELSE ROOM_PURCHASE_COUNTS
    IN  /\ thr[t].pc = "limit"
        /\ ROOM_PURCHASE_COUNTS' = checked
        /\ thr' = IF LimitApplies(item.limit)
                     /\ SoldOut(RoomCount(checked, thr[t].room, thr[t].item), item.limit)
                  THEN Done(t, "sold_out")
                  ELSE [thr EXCEPT ![t].pc = "funds"]
        /\ last' = Result("buy", thr[t].item, "limit")
        /\ UNCHANGED <<USERS, session, ROOMS, GLOBAL_STORE, LOGGED_IN, conn, nextRoomId,
                       nextItemId, emitted,
                       now, invites, responses>>

(* if user["coins"] < item["price"]: return not enough coins *)
buy_funds(t) ==
    LET item == GLOBAL_STORE[FindItem(GLOBAL_STORE, thr[t].item)]
    IN  /\ thr[t].pc = "funds"
        /\ thr' = IF CannotPay(USERS[thr[t].username].coins, item.price)
                  THEN Done(t, "no_coins")
                  ELSE [thr EXCEPT ![t].pc = "debit"]
        /\ last' = Result("buy", thr[t].item, "funds")
        /\ UNCHANGED <<USERS, session, ROOMS, ROOM_PURCHASE_COUNTS, GLOBAL_STORE,
                       LOGGED_IN, conn, nextRoomId, nextItemId, emitted,
                       now, invites, responses>>

(* user["coins"] -= item["price"] *)
buy_debit(t) ==
    LET item == GLOBAL_STORE[FindItem(GLOBAL_STORE, thr[t].item)]
    IN  /\ thr[t].pc = "debit"
        /\ USERS' = [USERS EXCEPT ![thr[t].username].coins = @ - item.price]
        /\ thr' = [thr EXCEPT ![t].pc = "record"]
        /\ last' = Result("buy", thr[t].item, "debit")
        /\ UNCHANGED <<session, ROOMS, ROOM_PURCHASE_COUNTS, GLOBAL_STORE, LOGGED_IN,
                       conn, nextRoomId, nextItemId, emitted,
                       now, invites, responses>>

(* user["inventory"].append(item_id); item["total_sold"] += 1 *)
buy_record(t) ==
    /\ thr[t].pc = "record"
    /\ USERS' = [USERS EXCEPT ![thr[t].username].inventory = Append(@, thr[t].item)]
    /\ GLOBAL_STORE' = ItemSold(GLOBAL_STORE, FindItem(GLOBAL_STORE, thr[t].item))
    /\ thr' = [thr EXCEPT ![t].pc = "count"]
    /\ last' = Result("buy", thr[t].item, "record")
    /\ UNCHANGED <<session, ROOMS, ROOM_PURCHASE_COUNTS, LOGGED_IN, conn, nextRoomId,
                   nextItemId, emitted,
                   now, invites, responses>>

(* ROOM_PURCHASE_COUNTS.setdefault(room_id, {})[item_id] = ... + 1; return success *)
buy_count(t) ==
    /\ thr[t].pc = "count"
    /\ ROOM_PURCHASE_COUNTS' = CountUp(ROOM_PURCHASE_COUNTS, thr[t].room, thr[t].item)
    /\ thr' = Done(t, "ok")
    /\ last' = Result("buy", thr[t].item, "ok")
    /\ UNCHANGED <<USERS, session, ROOMS, GLOBAL_STORE, LOGGED_IN, conn, nextRoomId,
                   nextItemId, emitted,
                   now, invites, responses>>

(* int(x) of a number, given in halves: the fraction is dropped, towards zero *)
IntOfHalves(h) == IF h >= 0 THEN h \div 2 ELSE -((-h) \div 2)

(* on_tap_player refusing only what the donor cannot pay *)
DonationRefused_unpaid(coins, amount) == coins < amount

(* `if amount <= 0 or USERS[username]["coins"] < amount` *)
DonationRefused(coins, amount) == amount <= 0 \/ coins < amount

(* on_tap_player; target, action and amount are what the browser sent, amount
   in halves of a coin *)
on_tap_player(sid, target, action, halves) ==
    LET username == Get(LOGGED_IN, sid, None)
        i == RoomIndexOf(ROOMS, username)
        amount == IntOfHalves(halves)
        req == [sid |-> sid, username |-> username, target |-> target,
                action |-> action, amount |-> halves]
    IN  /\ sid \in conn
        /\ UNCHANGED <<session, ROOMS, ROOM_PURCHASE_COUNTS, GLOBAL_STORE, LOGGED_IN, conn,
                       nextRoomId, nextItemId, thr, now, invites, responses>>
        /\ IF username = None
           THEN /\ last' = Result("tap", req, "anonymous")
                /\ emitted' = <<>>
                /\ UNCHANGED USERS
           ELSE IF i = 0 \/ ~Contains(ROOMS[i].users, target)
           THEN /\ last' = Result("tap", req, "ignored")
                /\ emitted' = <<>>
                /\ UNCHANGED USERS
           ELSE IF action = "donate"
           THEN IF DonationRefused(USERS[username].coins, amount)
                THEN /\ last' = Result("tap", req, "failed")
                     /\ emitted' = <<Event("donate_failed", None, sid,
                                           "Invalid amount or insufficient coins")>>
                     /\ UNCHANGED USERS
                ELSE /\ last' = Result("tap", req, "donated")
                     /\ LET taken == [USERS EXCEPT ![username].coins = @ - amount]
                        IN  USERS' = [taken EXCEPT ![target].coins = @ + amount]
                     /\ emitted' = <<Event("donation", ROOMS[i].id, None,
                                           [from |-> username, to |-> target,
                                            amount |-> amount])>>
           ELSE IF action = "attack"
           THEN /\ last' = Result("tap", req, "attacked")
                /\ emitted' = <<Event("attacked", ROOMS[i].id, None,
                                      [from |-> username, to |-> target, damage |-> 10])>>
                /\ UNCHANGED USERS
           ELSE /\ last' = Result("tap", req, "none")
                /\ emitted' = <<>>
                /\ UNCHANGED USERS

(* on_tap_player with action "donate", up to the check of the amount *)
donate_begin(t, sid, target, amount) ==
    LET username == Get(LOGGED_IN, sid, None)
        i == RoomIndexOf(ROOMS, username)
    IN  /\ thr[t].pc = "idle"
        /\ username # None
        /\ LET req == [Idle EXCEPT !.op = "donate", !.s = sid, !.username = username,
                                   !.target = target, !.amount = amount]
           IN  IF i = 0 \/ ~Contains(ROOMS[i].users, target)
               THEN /\ thr' = [thr EXCEPT ![t] = [req EXCEPT !.pc = "done",
                                                             !.res = "ignored"]]
                    /\ emitted' = <<>>
               ELSE IF DonationRefused(USERS[username].coins, amount)
               THEN /\ thr' = [thr EXCEPT ![t] = [req EXCEPT !.pc = "done",
                                                             !.res = "failed"]]
                    /\ emitted' = <<Event("donate_failed", None, sid, amount)>>
               ELSE /\ thr' = [thr EXCEPT ![t] = [req EXCEPT !.pc = "take",
                                                             !.room = ROOMS[i].id]]
                    /\ emitted' = <<>>
        /\ last' = Result("donate", username, "begin")
        /\ UNCHANGED <<USERS, session, ROOMS, ROOM_PURCHASE_COUNTS, GLOBAL_STORE,
                       LOGGED_IN, conn, nextRoomId, nextItemId,
                       now, invites, responses>>

(* USERS[username]["coins"] -= amount *)
donate_take(t) ==
    /\ thr[t].pc = "take"
    /\ USERS' = [USERS EXCEPT ![thr[t].username].coins = @ - thr[t].amount]
    /\ thr' = [thr EXCEPT ![t].pc = "give"]
    /\ last' = Result("donate", thr[t].username, "take")
    /\ emitted' = <<>>
    /\ UNCHANGED <<session, ROOMS, ROOM_PURCHASE_COUNTS, GLOBAL_STORE, LOGGED_IN, conn,
                   nextRoomId, nextItemId,
                   now, invites, responses>>

(* USERS[target]["coins"] += amount; emit("donation", ...) *)
donate_give(t) ==
    /\ thr[t].pc = "give"
    /\ USERS' = [USERS EXCEPT ![thr[t].target].coins = @ + thr[t].amount]
    /\ thr' = Done(t, "ok")
    /\ last' = Result("donate", thr[t].username, "ok")
    /\ emitted' = <<Event("donation", thr[t].room, None,
                          [from |-> thr[t].username, to |-> thr[t].target,
                           amount |-> thr[t].amount])>>
    /\ UNCHANGED <<session, ROOMS, ROOM_PURCHASE_COUNTS, GLOBAL_STORE, LOGGED_IN, conn,
                   nextRoomId, nextItemId,
                   now, invites, responses>>

NextBuy ==
    \/ \E t \in Threads, s \in Sessions, item_id \in ItemIds : buy_begin(t, s, item_id)
    \/ \E t \in Threads : buy_limit(t)
    \/ \E t \in Threads : buy_funds(t)
    \/ \E t \in Threads : buy_debit(t)
    \/ \E t \in Threads : buy_record(t)
    \/ \E t \in Threads : buy_count(t)
    \/ \E t \in Threads, sid \in Sids, target \in Shoppers, amount \in Amounts :
          donate_begin(t, sid, target, amount)
    \/ \E t \in Threads : donate_take(t)
    \/ \E t \in Threads : donate_give(t)

SpecBuy == InitBuy /\ [][NextBuy]_vars

----------------------------------------------------------------------------
(* Properties of room assignment, under Spec *)

Members(rooms) == UNION {{rooms[i].users[j] : j \in 1..Len(rooms[i].users)} : i \in 1..Len(rooms)}

Assigned(op) == op.op \in {"signup", "login"} /\ op.res = "ok"

(* C1: after any sequence of signup, login and logout, every room in ROOMS has
   at most MAX_ROOM_SIZE = 10 members. *)
RoomsWithinCapacity ==
    \A i \in 1..Len(ROOMS) : Len(ROOMS[i].users) <= MAX_ROOM_SIZE

(* a room is full and an assignment has just gone past it *)
FullRoomPassedOver ==
    /\ Assigned(last)
    /\ \E i \in 1..Len(ROOMS) :
         /\ Len(ROOMS[i].users) = MAX_ROOM_SIZE
         /\ ~Contains(ROOMS[i].users, last.arg)

(* C2: an assignment adds the player to the first room, in creation order, with
   fewer than 10 members, and leaves every other room as it was; it creates a
   room, holding only that player, only when every room has exactly 10 members. *)
FirstFitStep ==
    Assigned(last') =>
        LET u == last'.arg
            open == {i \in 1..Len(ROOMS) : Len(ROOMS[i].users) < MAX_ROOM_SIZE}
        IN  IF open # {}
            THEN /\ Len(ROOMS') = Len(ROOMS)
                 /\ \A i \in 1..Len(ROOMS) :
                      ROOMS'[i] = IF i \in open /\ \A j \in open : i <= j
                                  THEN [ROOMS[i] EXCEPT !.users = ROOMS[i].users \o <<u>>]
                                  ELSE ROOMS[i]
            ELSE /\ \A i \in 1..Len(ROOMS) : Len(ROOMS[i].users) = MAX_ROOM_SIZE
                 /\ Len(ROOMS') = Len(ROOMS) + 1
                 /\ \A i \in 1..Len(ROOMS) : ROOMS'[i] = ROOMS[i]
                 /\ ROOMS'[Len(ROOMS')].users = <<u>>
                 /\ ROOMS'[Len(ROOMS')].id \notin RoomIds(ROOMS)

FirstFit == [][FirstFitStep /\ (Len(ROOMS') > Len(ROOMS) => Assigned(last'))]_vars

(* an older room has a free slot again, a newer room exists, and the returning
   player has been put into the older one *)
RejoinedOlderRoom ==
    /\ Assigned(last)
    /\ Len(ROOMS) = 2
    /\ Contains(ROOMS[1].users, last.arg)
    /\ Len(ROOMS[2].users) < MAX_ROOM_SIZE

(* C4: no room in ROOMS has zero members, and the step that removes a room's
   last member removes the room too: its id is gone from ROOMS and from
   ROOM_PURCHASE_COUNTS, and the user resolves to no room. *)
LastMemberStep ==
    (last'.op = "logout" /\ last'.res # "redirect") =>
        /\ get_room_for_user(ROOMS', last'.arg) = None
        /\ \A i \in 1..Len(ROOMS) :
             ROOMS[i].users = <<last'.arg>> =>
                 /\ ROOMS[i].id \notin RoomIds(ROOMS')
                 /\ ROOMS[i].id \notin DOMAIN ROOM_PURCHASE_COUNTS'
                 /\ Len(ROOMS') = Len(ROOMS) - 1

NoEmptyRoom ==
    /\ [](\A i \in 1..Len(ROOMS) : Len(ROOMS[i].users) > 0)
    /\ [][LastMemberStep]_vars

(* the only member of a room has logged out, and the room is gone while an
   older room lives on *)
LastMemberLeft ==
    /\ last.op = "logout" /\ last.res = "emptied"
    /\ Len(ROOMS) = 1
    /\ last.arg \notin Members(ROOMS)

(* C5: a log-in of a player who is already in a room changes no room and gives
   the session that room; each username is listed at most once over all rooms. *)
ListedTimes(rooms, u) ==
    Cardinality({<<i, j>> \in (1..Len(rooms)) \X (1..MAX_ROOM_SIZE + 1) :
                    j <= Len(rooms[i].users) /\ rooms[i].users[j] = u})

RejoinStep ==
    (last'.op = "login" /\ last'.res # "incorrect" /\ last'.arg \in Members(ROOMS)) =>
        /\ ROOMS' = ROOMS
        /\ \E s \in Sessions :
             /\ session'[s].username = last'.arg
             /\ \E i \in 1..Len(ROOMS) :
                  /\ Contains(ROOMS[i].users, last'.arg)
                  /\ session'[s].room_id = ROOMS[i].id
             /\ \A o \in Sessions \ {s} : session'[o] = session[o]

SingleMembership ==
    /\ [](\A u \in DOMAIN USERS : ListedTimes(ROOMS, u) <= 1)
    /\ [][RejoinStep]_vars

(* two browsers hold the same player, the second by a log-in that found the
   player already in a room *)
LoggedInTwice ==
    /\ last.op = "login" /\ last.res = "rejoined"
    /\ session[1].username = last.arg
    /\ session[2].username = last.arg
    /\ ListedTimes(ROOMS, last.arg) = 1

----------------------------------------------------------------------------
(* signup and login served by threads that interleave between the statements of
   assign_room_for_user: each turn of `for room in ROOMS` with its capacity
   check is one step, the append to the room found is another, and so is the
   creation of a room after the loop.  The statements before the call (the
   checks, USERS[username] = ..., get_room_for_user) are one step. *)

signup_begin(t, s, username) ==
    /\ thr[t].pc = "idle"
    /\ username \notin DOMAIN USERS
    /\ USERS' = Put(USERS, username, NewUser(FALSE, Cardinality(DOMAIN USERS)))
    /\ thr' = [thr EXCEPT ![t] = [Idle EXCEPT !.pc = "scan", !.op = "signup", !.s = s,
                                              !.username = username, !.i = 1]]
    /\ last' = Result("signup", username, "begin")
    /\ UNCHANGED <<session, ROOMS, ROOM_PURCHASE_COUNTS, GLOBAL_STORE, LOGGED_IN, conn,
                   nextRoomId, nextItemId, emitted,
                   now, invites, responses>>

login_begin(t, s, username) ==
    /\ thr[t].pc = "idle"
    /\ username \in DOMAIN USERS
    /\ thr' = [thr EXCEPT ![t] =
                 IF login_needs_assign(ROOMS, username)
                 THEN [Idle EXCEPT !.pc = "scan", !.op = "login", !.s = s,
                                   !.username = username, !.i = 1]
                 ELSE [Idle EXCEPT !.pc = "return", !.op = "login", !.s = s,
                                   !.username = username,
                                   !.room = get_room_for_user(ROOMS, username),
                                   !.res = "rejoined"]]
    /\ last' = Result("login", username, "begin")
    /\ UNCHANGED <<USERS, session, ROOMS, ROOM_PURCHASE_COUNTS, GLOBAL_STORE, LOGGED_IN,
                   conn, nextRoomId, nextItemId, emitted,
                   now, invites, responses>>

(* one turn of the loop: `for room in ROOMS: if len(room["users"]) < MAX_ROOM_SIZE` *)
assign_scan(t) ==
    /\ thr[t].pc = "scan"
    /\ thr' = [thr EXCEPT ![t] =
                 IF thr[t].i > Len(ROOMS) THEN [@ EXCEPT !.pc = "create"]
                 ELSE IF Len(ROOMS[thr[t].i].users) < MAX_ROOM_SIZE
                      THEN [@ EXCEPT !.pc = "append", !.room = ROOMS[thr[t].i].id]
                      ELSE [@ EXCEPT !.i = @ + 1]]
    /\ last' = Result(thr[t].op, thr[t].username, "scan")
    /\ UNCHANGED <<USERS, session, ROOMS, ROOM_PURCHASE_COUNTS, GLOBAL_STORE, LOGGED_IN,
                   conn, nextRoomId, nextItemId, emitted,
                   now, invites, responses>>

(* room["users"].append(username); ROOM_PURCHASE_COUNTS.setdefault(room["id"], {}) *)
assign_append(t) ==
    /\ thr[t].pc = "append"
    /\ ROOMS' = [i \in 1..Len(ROOMS) |->
                   IF ROOMS[i].id = thr[t].room
                   THEN [ROOMS[i] EXCEPT !.users = Append(@, thr[t].username)]
                   ELSE ROOMS[i]]
    /\ ROOM_PURCHASE_COUNTS' = SetDefault(ROOM_PURCHASE_COUNTS, thr[t].room, EmptyDict)
    /\ thr' = [thr EXCEPT ![t].pc = "return", ![t].res = "ok"]
    /\ last' = Result(thr[t].op, thr[t].username, "append")
    /\ UNCHANGED <<USERS, session, GLOBAL_STORE, LOGGED_IN, conn, nextRoomId,
                   nextItemId, emitted,
                   now, invites, responses>>

(* the loop found no room: ROOMS.append(new_room) *)
assign_create(t) ==
    /\ thr[t].pc = "create"
    /\ nextRoomId <= MaxRooms
    /\ ROOMS' = Append(ROOMS, NewRoom(nextRoomId, thr[t].username))
    /\ ROOM_PURCHASE_COUNTS' = SetDefault(ROOM_PURCHASE_COUNTS, nextRoomId, EmptyDict)
    /\ nextRoomId' = nextRoomId + 1
    /\ thr' = [thr EXCEPT ![t].pc = "return", ![t].room = nextRoomId, ![t].res = "ok"]
    /\ last' = Result(thr[t].op, thr[t].username, "create")
    /\ UNCHANGED <<USERS, session, GLOBAL_STORE, LOGGED_IN, conn, nextItemId, emitted,
                   now, invites, responses>>

(* session["username"], session["room_id"] reach the browser with the response *)
assign_return(t) ==
    /\ thr[t].pc = "return"
    /\ session' = [session EXCEPT ![thr[t].s] =
                      [username |-> thr[t].username, room_id |-> thr[t].room]]
    /\ thr' = [thr EXCEPT ![t] = Idle]
    /\ last' = Result(thr[t].op, thr[t].username, thr[t].res)
    /\ UNCHANGED <<USERS, ROOMS, ROOM_PURCHASE_COUNTS, GLOBAL_STORE, LOGGED_IN, conn,
                   nextRoomId, nextItemId, emitted,
                   now, invites, responses>>

NextAssign ==
    \/ \E t \in Threads, u \in Names : signup_begin(t, t, u)
    \/ \E t \in Threads, u \in Names : login_begin(t, t, u)
    \/ \E t \in Threads : assign_scan(t)
    \/ \E t \in Threads : assign_append(t)
    \/ \E t \in Threads : assign_create(t)
    \/ \E t \in Threads : assign_return(t)

SpecAssign == Init /\ [][NextAssign]_vars

(* C3: with two assignments interleaved between the capacity check and the
   append or create, no room is pushed above 10 members and no room is created
   while an existing room has a free slot. *)
AssignmentsSerialized ==
    [][/\ \A i \in 1..Len(ROOMS') : Len(ROOMS'[i].users) <= MAX_ROOM_SIZE
       /\ Len(ROOMS') > Len(ROOMS) =>
            \A i \in 1..Len(ROOMS) : Len(ROOMS[i].users) = MAX_ROOM_SIZE]_vars

----------------------------------------------------------------------------
(* Properties of the socket handlers, under SpecPresence *)

(* the socket sid, registered to a player, closes in this step *)
Closes(sid) == sid \in DOMAIN LOGGED_IN /\ sid \in conn /\ sid \notin conn'

LeaveSent(events, room_id, u) ==
    \E k \in 1..Len(events) :
        events[k].name = "player_leave" /\ events[k].room = room_id /\ events[k].data = u

(* C6 as claimed: once the disconnect handler of a connected player is done, the
   player is in no room's member list, a leave event has gone to the room, and
   the connection handle is discarded. *)
DisconnectReleases ==
    [][\A sid \in Sids : Closes(sid) =>
          LET u == LOGGED_IN[sid]
          IN  /\ u \notin Members(ROOMS')
              /\ sid \notin DOMAIN LOGGED_IN'
              /\ \A i \in 1..Len(ROOMS) :
                   Contains(ROOMS[i].users, u) => LeaveSent(emitted', ROOMS[i].id, u)]_vars

(* C6 as the code has it: the handle is discarded and, when the player is in a
   room, the player's state entry is dropped from that room and a leave event
   goes to it; the member lists are untouched, so the player keeps the slot. *)
DisconnectKeepsMember ==
    [][\A sid \in Sids : Closes(sid) =>
          LET u == LOGGED_IN[sid]
          IN  /\ sid \notin DOMAIN LOGGED_IN'
              /\ Len(ROOMS') = Len(ROOMS)
              /\ \A i \in 1..Len(ROOMS) :
                   /\ ROOMS'[i].id = ROOMS[i].id
                   /\ ROOMS'[i].users = ROOMS[i].users
                   /\ IF Contains(ROOMS[i].users, u)
                      THEN /\ u \notin DOMAIN ROOMS'[i].players
                           /\ LeaveSent(emitted', ROOMS[i].id, u)
                      ELSE ROOMS'[i].players = ROOMS[i].players
              /\ u \notin Members(ROOMS) => emitted' = <<>>]_vars

(* a player whose socket has just closed is still listed in a room *)
GhostMember ==
    /\ last.op = "disconnect" /\ last.res = "ok"
    /\ last.arg \in Members(ROOMS)
    /\ \A sid \in DOMAIN LOGGED_IN : LOGGED_IN[sid] # last.arg

----------------------------------------------------------------------------
(* Properties of the store, under SpecStore *)

(* C7 as claimed, for the limits the code treats as set (`if item["limit"]`):
   total_sold never exceeds limit. *)
TotalSoldWithinLimit ==
    \A k \in 1..Len(GLOBAL_STORE) :
        LimitApplies(GLOBAL_STORE[k].limit) =>
            GLOBAL_STORE[k].total_sold <= GLOBAL_STORE[k].limit

(* C7 as the code has it: the limit is per room.  For every entry with a limit
   other than 0, the purchases recorded for any one room never exceed the limit;
   total_sold counts the purchases of all rooms. *)
RoomCountWithinLimit ==
    \A k \in 1..Len(GLOBAL_STORE), r \in DOMAIN ROOM_PURCHASE_COUNTS :
        (GLOBAL_STORE[k].limit # NoLimit /\ GLOBAL_STORE[k].limit # 0) =>
            Get(ROOM_PURCHASE_COUNTS[r], GLOBAL_STORE[k].id, 0) <= GLOBAL_STORE[k].limit

(* an entry has sold more than its limit over two rooms, each within the limit,
   and the last purchase in the present room was refused as sold out *)
SoldOverTwoRooms ==
    /\ last.op = "buy" /\ last.res = "sold_out"
    /\ \E k \in 1..Len(GLOBAL_STORE) :
         /\ GLOBAL_STORE[k].id = last.arg
         /\ GLOBAL_STORE[k].limit = 1
         /\ GLOBAL_STORE[k].total_sold = 2
         /\ \E r \in DOMAIN ROOM_PURCHASE_COUNTS :
              Get(ROOM_PURCHASE_COUNTS[r], last.arg, 0) = 1

(* C8: for every entry created with an integer limit L >= 0, L = 0 included,
   no room's recorded purchase count for it exceeds L. *)
RoomCountWithinAnyLimit ==
    \A k \in 1..Len(GLOBAL_STORE), r \in DOMAIN ROOM_PURCHASE_COUNTS :
        GLOBAL_STORE[k].limit # NoLimit =>
            Get(ROOM_PURCHASE_COUNTS[r], GLOBAL_STORE[k].id, 0) <= GLOBAL_STORE[k].limit

----------------------------------------------------------------------------
(* Properties of interleaved purchases and donations, under SpecBuy *)

Bought(t, item_id) == thr[t].pc = "done" /\ thr[t].op = "buy" /\ thr[t].item = item_id

(* C9: when the requests of all threads are purchases of one entry with limit
   L >= 1 by different players of one room, each with the coins for it, and
   there are more requests than L, exactly L of them succeed, the others fail
   as sold out, and the coins debited are L times the price. *)
PurchasesExactlyOnce ==
    \A k \in 1..Len(GLOBAL_STORE) :
        LET item == GLOBAL_STORE[k]
            won == {t \in Threads : thr[t].res = "ok"}
            lost == {t \in Threads : thr[t].res = "sold_out"}
        IN  (/\ LimitApplies(item.limit)
             /\ Cardinality(Threads) > item.limit
             /\ \A t \in Threads : Bought(t, item.id)
             /\ \A t, o \in Threads : t # o =>
                  thr[t].username # thr[o].username /\ thr[t].room = thr[o].room
             /\ START_COINS >= item.price)
            => /\ Cardinality(won) = item.limit
               /\ Cardinality(lost) = Cardinality(Threads) - item.limit
               /\ \A t \in Threads :
                    USERS[thr[t].username].coins =
                        IF t \in won THEN START_COINS - item.price ELSE START_COINS

(* C10: every player's coin balance is non-negative in every reachable state,
   whatever the interleaving of purchases and donations. *)
CoinsNeverNegative == \A u \in DOMAIN USERS : USERS[u].coins >= 0

----------------------------------------------------------------------------
(* The store with two browsers, which may hold the same player: a log-out from
   one browser leaves the other browser's session cookie as it was.  The
   behaviours start when both players have signed up and one entry is on sale. *)

NextMall ==
    \/ \E s \in Sessions, u \in Shoppers, ok \in BOOLEAN : login(s, u, ok)
    \/ \E s \in Sessions : logout(s)
    \/ \E s \in Sessions, item_id \in ItemIds : buy(s, item_id)

SpecMall == InitBuy /\ [][NextMall]_vars

BuyFailed(op) == op.op = "buy" /\ op.res \in {"not_found", "sold_out", "no_coins"}

(* C11: a purchase that fails (entry not found, sold out, not enough coins)
   leaves the coins and inventory of every player, every entry's total_sold
   and the table ROOM_PURCHASE_COUNTS exactly as they were before the call. *)
FailedPurchaseChangesNothing ==
    [][BuyFailed(last') =>
          /\ USERS' = USERS
          /\ GLOBAL_STORE' = GLOBAL_STORE
          /\ ROOM_PURCHASE_COUNTS' = ROOM_PURCHASE_COUNTS]_vars

(* C12: a successful purchase of entry e with price p from a browser whose
   session holds player u and room r changes exactly this: u's coins go down by
   p, e's id is appended once to u's inventory, e's total_sold goes up by 1,
   ROOM_PURCHASE_COUNTS[r][e] goes up by 1, and the reply carries u's new coins.
   No other player, entry, count, room or session changes. *)
PurchaseStep ==
    (last'.op = "buy" /\ last'.res = "ok") =>
        \E s \in Sessions :
            LET u == session[s].username
                r == session[s].room_id
                e == last'.arg
                k == FindItem(GLOBAL_STORE, e)
            IN  /\ u \in DOMAIN USERS
                /\ k # 0
                /\ DOMAIN USERS' = DOMAIN USERS
                /\ \A o \in DOMAIN USERS \ {u} : USERS'[o] = USERS[o]
                /\ USERS'[u].coins = USERS[u].coins - GLOBAL_STORE[k].price
                /\ USERS'[u].inventory = USERS[u].inventory \o <<e>>
                /\ USERS'[u].is_worker = USERS[u].is_worker
                /\ USERS'[u].home_pos = USERS[u].home_pos
                /\ USERS'[u].skin = USERS[u].skin
                /\ Len(GLOBAL_STORE') = Len(GLOBAL_STORE)
                /\ \A j \in 1..Len(GLOBAL_STORE) :
                     GLOBAL_STORE'[j] =
                        IF j = k THEN [GLOBAL_STORE[j] EXCEPT !.total_sold = @ + 1]
                        ELSE GLOBAL_STORE[j]
                /\ DOMAIN ROOM_PURCHASE_COUNTS' = DOMAIN ROOM_PURCHASE_COUNTS \cup {r}
                /\ \A q \in DOMAIN ROOM_PURCHASE_COUNTS', i \in ItemIds :
                     RoomCount(ROOM_PURCHASE_COUNTS', q, i) =
                        RoomCount(ROOM_PURCHASE_COUNTS, q, i)
                            + (IF q = r /\ i = e THEN 1 ELSE 0)
                /\ emitted' = <<Reply([success |-> TRUE, coins |-> USERS'[u].coins])>>
                /\ UNCHANGED <<session, ROOMS, LOGGED_IN>>

PurchaseChangesExactly == [][PurchaseStep]_vars

(* the second purchase of an entry in one room has just succeeded: the buyer
   has paid, holds the entry, and the room's count and total_sold stand at 2 *)
SecondPurchaseInRoom ==
    /\ last.op = "buy" /\ last.res = "ok"
    /\ \E s \in Sessions, k \in 1..Len(GLOBAL_STORE) :
         /\ session[s].username # None
         /\ GLOBAL_STORE[k].id = last.arg
         /\ GLOBAL_STORE[k].total_sold = 2
         /\ RoomCount(ROOM_PURCHASE_COUNTS, session[s].room_id, last.arg) = 2
         /\ USERS[session[s].username].coins = START_COINS - GLOBAL_STORE[k].price
         /\ USERS[session[s].username].inventory = <<last.arg>>
         /\ emitted = <<Reply([success |-> TRUE,
                               coins |-> START_COINS - GLOBAL_STORE[k].price])>>

----------------------------------------------------------------------------
(* The order of the catalog, under SpecStore *)

(* the fields of an entry that are not counters *)
Listing(item) == [id |-> item.id, type |-> item.type, title |-> item.title,
                  price |-> item.price, limit |-> item.limit]

CatalogStep ==
    /\ (last'.op = "worker" /\ last'.res = "ok") =>
          /\ Len(GLOBAL_STORE') = Len(GLOBAL_STORE) + 1
          /\ \A j \in 1..Len(GLOBAL_STORE) : GLOBAL_STORE'[j + 1] = GLOBAL_STORE[j]
          /\ \A j \in 1..Len(GLOBAL_STORE) : GLOBAL_STORE'[1].id # GLOBAL_STORE[j].id
          /\ GLOBAL_STORE'[1].total_sold = 0
    /\ last'.op = "buy" =>
          /\ Len(GLOBAL_STORE') = Len(GLOBAL_STORE)
          /\ \A j \in 1..Len(GLOBAL_STORE) :
               Listing(GLOBAL_STORE'[j]) = Listing(GLOBAL_STORE[j])
    /\ ~(last'.op = "worker" /\ last'.res = "ok") /\ last'.op # "buy" =>
          GLOBAL_STORE' = GLOBAL_STORE

(* C13: the catalog is ordered newest first.  An added entry goes to the head
   of GLOBAL_STORE and the entries already there keep their order; a purchase,
   successful or failed, changes neither the order nor the title, price, limit
   or type of any entry; nothing else changes the catalog.  Entry ids are
   handed out in increasing order, so newer entries have larger ids. *)
CatalogNewestFirst ==
    /\ [](\A i, j \in 1..Len(GLOBAL_STORE) :
            i < j => GLOBAL_STORE[i].id > GLOBAL_STORE[j].id)
    /\ [][CatalogStep]_vars

(* the older of two entries has been bought and is still behind the newer *)
OlderEntryBought ==
    /\ last.op = "buy" /\ last.res = "ok"
    /\ Len(GLOBAL_STORE) = 2
    /\ GLOBAL_STORE[2].id = last.arg
    /\ GLOBAL_STORE[2].total_sold = 1
    /\ GLOBAL_STORE[1].total_sold = 0
    /\ GLOBAL_STORE[1].id > GLOBAL_STORE[2].id

----------------------------------------------------------------------------
(* The game: two players in one room, each with an open socket, moving,
   chatting, entering and leaving their homes, closing and opening sockets,
   logging out and in *)

InitPlay == \E price \in Prices : InitShop(price, "")

NextPlay ==
    \/ \E s \in Sessions : logout(s)
    \/ \E s \in Sessions : login(s, s, TRUE)
    \/ \E sid \in Sids : on_connect(sid, sid)
    \/ \E sid \in Sids : on_disconnect(sid)
    \/ \E sid \in Sids, m \in Moves : on_move(sid, m[1], m[2])
    \/ \E sid \in Sids, msg \in ChatTexts : on_chat(sid, msg)
    \/ \E sid \in Sids, action \in Actions : on_press_e(sid, action)

SpecPlay == InitPlay /\ [][NextPlay]_vars

(* C14: every stored player position lies within the map, 0..800 in x and
   0..560 in y, in every reachable state; a move beyond the map is cut to the
   nearest edge before it is stored and before it is broadcast. *)
PositionsWithinMap ==
    /\ \A i \in 1..Len(ROOMS) : \A u \in DOMAIN ROOMS[i].players :
          LET player == ROOMS[i].players[u]
          IN  /\ "x" \in DOMAIN player => player.x \in 0..800
              /\ "y" \in DOMAIN player => player.y \in 0..560
    /\ \A k \in 1..Len(emitted) :
          emitted[k].name = "player_moved" =>
              emitted[k].data.x \in 0..800 /\ emitted[k].data.y \in 0..560

(* C15: a chat from a socket registered to a player who is in a room sends the
   room one chat_bubble whose text is the first 300 characters of the text
   submitted, all of it when it is shorter; a chat from a socket with no
   registered player, or whose player is in no room, sends nothing.  No chat
   changes any room or player. *)
ChatStep ==
    last'.op = "chat" =>
        LET sent == last'.arg.msg
            u == Get(LOGGED_IN, last'.arg.sid, None)
        IN  /\ UNCHANGED <<USERS, ROOMS, LOGGED_IN>>
            /\ IF u # None /\ u \in Members(ROOMS)
               THEN /\ Len(emitted') = 1
                    /\ emitted'[1].name = "chat_bubble"
                    /\ emitted'[1].data.from = u
                    /\ Contains(ROOMS[RoomIndexOf(ROOMS, u)].users, u)
                    /\ emitted'[1].room = ROOMS[RoomIndexOf(ROOMS, u)].id
                    /\ LET got == emitted'[1].data.msg
                       IN  /\ Len(got) <= 300
                           /\ Len(sent) <= 300 => got = sent
                           /\ Len(sent) > 300 =>
                                 Len(got) = 300 /\ \A k \in 1..300 : got[k] = sent[k]
               ELSE emitted' = <<>>

ChatCutAt300 == [][ChatStep]_vars

(* a text longer than 300 characters has just been sent to the room, cut *)
LongChatCut ==
    /\ last.op = "chat" /\ last.res = "ok"
    /\ Len(last.arg.msg) > 300
    /\ Len(emitted) = 1
    /\ emitted[1].name = "chat_bubble"
    /\ Len(emitted[1].data.msg) = 300

----------------------------------------------------------------------------
(* The snapshot sent on connect, under SpecPresence *)

Joined(op) == op.op = "connect" /\ op.res = "ok"

HasSocket(u) == \E sid \in DOMAIN LOGGED_IN : LOGGED_IN[sid] = u

(* C16 as claimed: the snapshot sent to a joining connection has a state entry
   for every member of the room, connected or not, and the joiner's coins. *)
SnapshotHasEveryMember ==
    Joined(last) =>
        LET room == ROOMS[RoomIndexOf(ROOMS, last.arg)]
        IN  /\ \A k \in 1..Len(room.users) :
                 room.users[k] \in DOMAIN emitted[2].data.players
            /\ emitted[2].data.coins = USERS[last.arg].coins

(* C16 as the code has it: the snapshot, sent to the joining socket alone,
   carries the room's table of player states as it is once the joiner's entry
   has been written, and the joiner's coins.  The joiner's entry is at the
   joiner's home position, outside the house; the other entries are those the
   table held before.  A member without a state entry is not in the snapshot. *)
SnapshotHasLivePlayers ==
    Joined(last) =>
        LET room == ROOMS[RoomIndexOf(ROOMS, last.arg)]
            snap == emitted[2]
            me == snap.data.players[last.arg]
        IN  /\ Len(emitted) = 2
            /\ snap.name = "room_state"
            /\ snap.room = None
            /\ Get(LOGGED_IN, snap.sid, None) = last.arg
            /\ snap.data.players = room.players
            /\ snap.data.coins = USERS[last.arg].coins
            /\ last.arg \in DOMAIN snap.data.players
            /\ me.x = USERS[last.arg].home_pos.x
            /\ me.y = USERS[last.arg].home_pos.y
            /\ me.skin = USERS[last.arg].skin
            /\ me.in_house = FALSE
            /\ \A k \in 1..Len(room.users) :
                 room.users[k] \notin DOMAIN room.players =>
                     room.users[k] \notin DOMAIN snap.data.players

(* a player has just joined a room where another member has no socket, and the
   snapshot has no entry for that member *)
SnapshotWithoutOfflineMember ==
    /\ Joined(last)
    /\ \E k \in 1..Len(ROOMS[RoomIndexOf(ROOMS, last.arg)].users) :
         LET m == ROOMS[RoomIndexOf(ROOMS, last.arg)].users[k]
         IN  /\ m # last.arg
             /\ ~HasSocket(m)
             /\ m \notin DOMAIN emitted[2].data.players

----------------------------------------------------------------------------
(* Party invites: two players in one room, each with an open socket, inviting
   and answering, closing their sockets and logging out, while time passes *)

NextParty ==
    \/ \E s \in Sessions : logout(s)
    \/ \E sid \in Sids : on_disconnect(sid)
    \/ \E sid \in Sids : on_party_invite(sid)
    \/ \E sid \in Sids, host \in Hosts, response \in Responses :
          on_party_response(sid, host, response)
    \/ \E d \in Ticks : Tick(d)

SpecParty == InitPlay /\ [][NextParty]_vars

(* a response from a socket with a registered player has been handled *)
Responded(op) == op.op = "party_response" /\ op.res # "anonymous"

Accepted(op) == op.op = "party_response" /\ op.res = "accept"

(* the host's latest notification is no older than INVITE_TTL seconds *)
Fresh(host) == host \in DOMAIN invites /\ now <= invites[host].at + INVITE_TTL

(* the host's latest notification went to the room that host and responder,
   another player, are both in, is still fresh, and the responder has not
   answered it *)
ValidInvite(u, host) ==
    /\ Fresh(host)
    /\ u # host
    /\ <<u, host>> \notin responses
    /\ get_room_for_user(ROOMS, host) = invites[host].room
    /\ get_room_for_user(ROOMS, u) = invites[host].room

NoRoomBroadcast(events) == \A k \in 1..Len(events) : events[k].room = None

(* C17 as claimed: when an accept is handled for a valid invite, the
   responder's stored position becomes the host's home position and the
   responder's in-house flag stays as it was. *)
AcceptMovesToHostHome ==
    [][(Accepted(last') /\ ValidInvite(last'.arg.username, last'.arg.host)) =>
          LET u == last'.arg.username
              i == RoomIndexOf(ROOMS, u)
              old == Get(ROOMS[i].players, u, EmptyDict)
              new == Get(ROOMS'[i].players, u, EmptyDict)
          IN  /\ Get(new, "x", None) = USERS[last'.arg.host].home_pos.x
              /\ Get(new, "y", None) = USERS[last'.arg.host].home_pos.y
              /\ Get(new, "in_house", None) = Get(old, "in_house", None)]_vars

(* C17 as the code has it: when an accept is handled and the host is in a room,
   the responder's in-house flag in the host's room becomes true (the entry is
   created, with that flag alone, when the room has none for the responder);
   the position and every other key of the entry stay as they were, no other
   entry or room changes, and joined_party goes to the host's room. *)
AcceptSetsInHouse ==
    [][Accepted(last') =>
          LET u == last'.arg.username
              host == last'.arg.host
              i == RoomIndexOf(ROOMS, host)
              old == Get(ROOMS[i].players, u, EmptyDict)
              new == ROOMS'[i].players[u]
          IN  /\ i # 0
              /\ Len(ROOMS') = Len(ROOMS)
              /\ \A j \in 1..Len(ROOMS) : j # i => ROOMS'[j] = ROOMS[j]
              /\ ROOMS'[i].id = ROOMS[i].id
              /\ ROOMS'[i].users = ROOMS[i].users
              /\ DOMAIN ROOMS'[i].players = DOMAIN ROOMS[i].players \cup {u}
              /\ \A o \in DOMAIN ROOMS[i].players \ {u} :
                   ROOMS'[i].players[o] = ROOMS[i].players[o]
              /\ DOMAIN new = DOMAIN old \cup {"in_house"}
              /\ new.in_house = TRUE
              /\ \A f \in DOMAIN old \ {"in_house"} : new[f] = old[f]
              /\ emitted' = <<Event("joined_party", ROOMS[i].id, None,
                                    [host |-> host, guest |-> u])>>
              /\ UNCHANGED USERS]_vars

(* a guest has accepted the notification of a host whose home is elsewhere: the
   guest is flagged as in a house and stands where it stood, at its own home *)
GuestFlaggedNotMoved ==
    /\ Accepted(last)
    /\ last.arg.host \in DOMAIN invites
    /\ last.arg.host # last.arg.username
    /\ LET i == RoomIndexOf(ROOMS, last.arg.host)
           u == last.arg.username
       IN  /\ i # 0
           /\ Contains(ROOMS[i].users, u)
           /\ ROOMS[i].players[u].in_house = TRUE
           /\ ROOMS[i].players[u].x = USERS[u].home_pos.x
           /\ ROOMS[i].players[u].x # USERS[last.arg.host].home_pos.x

(* C18: a response handled more than 10 seconds after the host's notification
   was sent changes no state and sends nothing to a room.  Stated for the
   responses of another member of the room the notification went to, with the
   host still in it. *)
LateResponseIgnored ==
    [][(/\ Responded(last')
        /\ last'.arg.username # last'.arg.host
        /\ last'.arg.host \in DOMAIN invites
        /\ now > invites[last'.arg.host].at + INVITE_TTL
        /\ get_room_for_user(ROOMS, last'.arg.host) = invites[last'.arg.host].room
        /\ get_room_for_user(ROOMS, last'.arg.username) = invites[last'.arg.host].room)
       => /\ UNCHANGED <<USERS, ROOMS>>
          /\ NoRoomBroadcast(emitted')]_vars

(* C19: a response to a notification that was never sent, or that this
   responder has already answered, changes no player state and sends nothing to
   a room. *)
UnknownOrAnsweredIgnored ==
    [][(/\ Responded(last')
        /\ \/ last'.arg.host \notin DOMAIN invites
           \/ <<last'.arg.username, last'.arg.host>> \in responses)
       => /\ UNCHANGED ROOMS
          /\ NoRoomBroadcast(emitted')]_vars

(* C20: a response from a player who is not a member of the host's room changes
   nothing in the host's room and sends nothing to it. *)
OutsiderResponseIgnored ==
    [][Responded(last') =>
          LET i == RoomIndexOf(ROOMS, last'.arg.host)
          IN  (i # 0 /\ ~Contains(ROOMS[i].users, last'.arg.username)) =>
                  /\ \E j \in 1..Len(ROOMS') : ROOMS'[j] = ROOMS[i]
                  /\ \A k \in 1..Len(emitted') : emitted'[k].room # ROOMS[i].id]_vars

(* C21 as claimed: when the host of a notification has closed its socket or left
   the room before the response is handled, the response fails: party_failed
   goes to the responder alone, no player state changes and nothing goes to a
   room. *)
HostGoneFails ==
    [][(/\ Responded(last')
        /\ last'.arg.host \in DOMAIN invites
        /\ \/ ~HasSocket(last'.arg.host)
           \/ get_room_for_user(ROOMS, last'.arg.host) # invites[last'.arg.host].room)
       => /\ last'.res = "failed"
          /\ emitted' = <<Event("party_failed", None, last'.arg.sid,
                                "Host not in same server or gone.")>>
          /\ UNCHANGED <<USERS, ROOMS>>]_vars

(* C21 as the code has it: when the host is in no room as the response is
   handled (the host has logged out), the response fails: party_failed goes to
   the responder alone, no state changes and nothing goes to a room.  A host
   that is still a member of a room, with or without a socket, is a host the
   response is handled for: the room gets joined_party or party_declined. *)
HostWithoutRoomFails ==
    [][Responded(last') =>
          LET host == last'.arg.host
              i == RoomIndexOf(ROOMS, host)
          IN  IF host \notin Members(ROOMS)
              THEN /\ last'.res = "failed"
                   /\ emitted' = <<Event("party_failed", None, last'.arg.sid,
                                         "Host not in same server or gone.")>>
                   /\ UNCHANGED <<USERS, ROOMS, LOGGED_IN, session, GLOBAL_STORE,
                                  ROOM_PURCHASE_COUNTS>>
              ELSE /\ last'.res \in {"accept", "decline"}
                   /\ Len(emitted') = 1
                   /\ emitted'[1].name \in {"joined_party", "party_declined"}
                   /\ emitted'[1].room = ROOMS[i].id]_vars

(* a player has answered the notification of a host who has since logged out,
   and was told that the host is gone *)
AnsweredDepartedHost ==
    /\ last.op = "party_response" /\ last.res = "failed"
    /\ last.arg.host \in DOMAIN invites
    /\ last.arg.host \in DOMAIN USERS
    /\ last.arg.host \notin Members(ROOMS)
    /\ last.arg.username \in Members(ROOMS)
    /\ Len(emitted) = 1
    /\ emitted[1].name = "party_failed"
    /\ emitted[1].sid = last.arg.sid

----------------------------------------------------------------------------
(* Sockets and rooms, under SpecPresence *)

(* C22: every player with a socket registered in LOGGED_IN is a member of
   exactly one room, whatever the sign-ups, log-ins, connects, log-outs and
   disconnects. *)
ConnectedPlayerHasOneRoom ==
    \A sid \in DOMAIN LOGGED_IN : ListedTimes(ROOMS, LOGGED_IN[sid]) = 1

----------------------------------------------------------------------------
(* Declines, under SpecParty *)

(* C23: a response other than accept changes no state: the rooms with their
   members and player states, the players with their coins and inventories, and
   the catalog are as they were.  When the host is in a room, the one event is
   party_declined, to the host's room; when the host is in no room, it is
   party_failed, to the responder. *)
DeclineChangesNothing ==
    [][(Responded(last') /\ last'.arg.response # "accept") =>
          LET host == last'.arg.host
              i == RoomIndexOf(ROOMS, host)
          IN  /\ UNCHANGED <<USERS, ROOMS, GLOBAL_STORE, ROOM_PURCHASE_COUNTS,
                             LOGGED_IN, session>>
              /\ emitted' =
                   IF i # 0
                   THEN <<Event("party_declined", ROOMS[i].id, None,
                                [host |-> host, guest |-> last'.arg.username])>>
                   ELSE <<Event("party_failed", None, last'.arg.sid,
                                "Host not in same server or gone.")>>]_vars

(* a response that is neither accept nor decline has been handled as a decline:
   the room was told, and the guest is not in a house *)
OddResponseDeclined ==
    /\ last.op = "party_response" /\ last.res = "decline"
    /\ last.arg.response = "maybe"
    /\ last.arg.host \in DOMAIN invites
    /\ Len(emitted) = 1
    /\ emitted[1].name = "party_declined"
    /\ LET i == RoomIndexOf(ROOMS, last.arg.host)
       IN  /\ i # 0
           /\ last.arg.username \in DOMAIN ROOMS[i].players
           /\ ROOMS[i].players[last.arg.username].in_house = FALSE

----------------------------------------------------------------------------
(* Who may change the catalog, under SpecStore *)

CatalogListing(items) == [j \in 1..Len(items) |-> Listing(items[j])]

(* C24: a catalog-add request from a logged-in user whose is_worker flag is
   false is rejected as unauthorized and leaves the catalog unchanged.  The
   entries of the catalog (their number, order, ids, titles, prices, limits)
   change only by an add request of a user whose is_worker flag is true, and
   the flag of a user never changes after the sign-up that set it. *)
WorkerOnlyStep ==
    /\ (last'.op = "worker" /\ last'.arg # None /\ ~USERS[last'.arg].is_worker) =>
          /\ last'.res = "unauthorized"
          /\ GLOBAL_STORE' = GLOBAL_STORE
    /\ CatalogListing(GLOBAL_STORE') # CatalogListing(GLOBAL_STORE) =>
          /\ last'.op = "worker" /\ last'.res = "ok"
          /\ last'.arg \in DOMAIN USERS
          /\ USERS[last'.arg].is_worker
    /\ \A u \in DOMAIN USERS :
          u \in DOMAIN USERS' /\ USERS'[u].is_worker = USERS[u].is_worker

OnlyWorkersChangeCatalog == [][WorkerOnlyStep]_vars

(* a player who is not a worker has asked to add an entry to a catalog that has
   one, and was turned away *)
NonWorkerTurnedAway ==
    /\ last.op = "worker" /\ last.res = "unauthorized"
    /\ last.arg \in DOMAIN USERS
    /\ ~USERS[last.arg].is_worker
    /\ Len(GLOBAL_STORE) = 1

----------------------------------------------------------------------------
(* Player states and members, under SpecParty *)

(* C25: in every room, every username with a player-state entry is in the
   room's list of users. *)
StateEntriesAreMembers ==
    \A i \in 1..Len(ROOMS) : \A u \in DOMAIN ROOMS[i].players :
        Contains(ROOMS[i].users, u)

----------------------------------------------------------------------------
(* Donations: two players in one room, each with an open socket, tapping each
   other and themselves, logging out and in; one request at a time *)

NextGift ==
    \/ \E s \in Sessions : logout(s)
    \/ \E s \in Sessions : login(s, s, TRUE)
    \/ \E sid \in Sids, target \in Hosts, action \in TapActions, halves \in TapAmounts :
          on_tap_player(sid, target, action, halves)

SpecGift == InitPlay /\ [][NextGift]_vars

RECURSIVE SumCoins(_, _)
SumCoins(users, names) ==
    IF names = {} THEN 0
    ELSE LET u == CHOOSE u \in names : TRUE
         IN  users[u].coins + SumCoins(users, names \ {u})

TotalCoins(users) == SumCoins(users, DOMAIN users)

(* the whole coins of an amount given in halves: the integer a with
   |a| <= |amount| < |a| + 1 and the sign of the amount *)
WholeCoins(halves) ==
    CHOOSE a \in -100..100 :
        IF halves >= 0 THEN 2 * a <= halves /\ halves < 2 * a + 2
        ELSE 2 * a >= halves /\ halves > 2 * a - 2

(* C26: a donate of a > 0 coins by a donor with at least a coins to a member of
   the donor's room takes a from the donor and gives a to the target (nothing
   changes when they are the same player); any other tap, a donate of a <= 0, of
   more than the donor has, or to a player outside the donor's room among them,
   changes no balance.  The sum of all balances never changes. *)
DonationStep ==
    last'.op = "tap" =>
        LET u == Get(LOGGED_IN, last'.arg.sid, None)
            target == last'.arg.target
            a == WholeCoins(last'.arg.amount)
            i == RoomIndexOf(ROOMS, u)
            given == /\ u # None
                     /\ last'.arg.action = "donate"
                     /\ i # 0
                     /\ Contains(ROOMS[i].users, target)
                     /\ a > 0
                     /\ USERS[u].coins >= a
        IN  /\ DOMAIN USERS' = DOMAIN USERS
            /\ \A o \in DOMAIN USERS :
                 /\ USERS'[o].coins =
                      USERS[o].coins
                        - (IF given /\ o = u THEN a ELSE 0)
                        + (IF given /\ o = target THEN a ELSE 0)
                 /\ USERS'[o].inventory = USERS[o].inventory
            /\ given <=> last'.res = "donated"
            /\ TotalCoins(USERS') = TotalCoins(USERS)

DonationsConserveCoins ==
    /\ [](TotalCoins(USERS) = START_COINS * Cardinality(DOMAIN USERS))
    /\ [][DonationStep]_vars

(* a player has just given 60.5, that is 60, coins to the other player of the
   room: 40 and 160 *)
SixtyCoinsGiven ==
    /\ last.op = "tap" /\ last.res = "donated"
    /\ last.arg.amount = 121
    /\ last.arg.target # last.arg.username
    /\ USERS[last.arg.username].coins = START_COINS - 60
    /\ USERS[last.arg.target].coins = START_COINS + 60

----------------------------------------------------------------------------
(* Purchases and gifts: two players in one room buying the entry on sale and
   giving each other coins, so that one player can pay for it twice; one
   request at a time *)

NextLedger ==
    \/ \E s \in Sessions, item_id \in ItemIds : buy(s, item_id)
    \/ \E sid \in Sids, target \in Shoppers, halves \in TapAmounts :
          on_tap_player(sid, target, "donate", halves)

SpecLedger == InitBuy /\ [][NextLedger]_vars

(* how many times x stands in the list *)
RECURSIVE Occurrences(_, _)
Occurrences(list, x) ==
    IF list = <<>> THEN 0
    ELSE (IF Head(list) = x THEN 1 ELSE 0) + Occurrences(Tail(list), x)

RECURSIVE HeldBy(_, _, _)
HeldBy(users, names, x) ==
    IF names = {} THEN 0
    ELSE LET u == CHOOSE u \in names : TRUE
         IN  Occurrences(users[u].inventory, x) + HeldBy(users, names \ {u}, x)

(* C27: with one request at a time, total_sold of every entry of the catalog
   equals the number of times the entry's id stands in the inventories of all
   players together. *)
TotalSoldMatchesInventories ==
    \A k \in 1..Len(GLOBAL_STORE) :
        GLOBAL_STORE[k].total_sold = HeldBy(USERS, DOMAIN USERS, GLOBAL_STORE[k].id)

(* a player who was given 60 coins has bought the entry twice: total_sold is
   2 and the entry's id stands twice in that player's inventory *)
SoldTwiceToOne ==
    \E k \in 1..Len(GLOBAL_STORE) : \E u \in DOMAIN USERS :
        /\ last.op = "buy" /\ last.res = "ok"
        /\ GLOBAL_STORE[k].total_sold = 2
        /\ Occurrences(USERS[u].inventory, GLOBAL_STORE[k].id) = 2

====
